---- MODULE Spec2Model ----
(***************************************************************************)
(* State-machine model of scene/gaussian_model.py (class GaussianModel):   *)
(* the primitive store, its optimizer-state resynchronisation, the         *)
(* clone / split / prune density control and the gradient-mask hooks.      *)
(*                                                                         *)
(* Encoding of tensors.  A per-primitive tensor is a sequence with one     *)
(* entry per row (TLA+ sequences are 1-based: row j of the source is entry *)
(* j+1).  _xyz, _features_dc, _features_rest and _rotation rows are only   *)
(* ever moved or copied by the code, so a row is an integer tag.  A        *)
(* _scaling row is a 3-tuple of log-scales counted in units of ln(1.6):    *)
(* exp of level k is the rational (8/5)^k.  An _opacity row is a logit in  *)
(* thousandths; opacities are in 1e-4.  A rational is a pair <<num, den>>. *)
(* The mask holds its dtype and its values in tenths (bool True = 10).     *)
(***************************************************************************)
EXTENDS Integers, Sequences, FiniteSets, TLC

\* ------------------------------------------------------------- bounds
MaxInit == 2      \* points of the cloud handed to create_from_pcd
MaxN == 4         \* population cap: an operation that would exceed it is not taken
MaxOther == 2     \* rows of the store handed to concat_gaussians
MaxDenom == 1     \* cap on denom (backward passes between two resets)
MaxHooks == 2     \* cap on the hooks registered on one tensor
MaxCalls == 3     \* operations a set-up store is put through, training iterations aside

\* ------------------------------------------------------ input domains
\* log sqrt(dist2) of a point of the cloud
PcdScales == {0, 1}
\* a row of another, trained store: its log-scales and its opacity logit
RowKinds == {<<<<0, 0, 0>>, -5000>>, <<<<0, 1, 0>>, 0>>}
PercentDense == <<1, 100>>
ExtentChoices == {100}
MaxGradChoices == {0, 2}
\* densify_and_prune's <<max_grad, min_opacity, extent, max_screen_size>>
DensifyArgs == {<<2, 80, 100, 0>>, <<2, 10000, 100, 4>>, <<0, 80, 100, 4>>}
GradNorms == {2}
RadiiSeen == {5}
SampleSet == {1}
WeightChoices == {2, 8}
KPercentChoices == {50}
AttnChoices == {5}
LogLevels == -8..8

\* ------------------------------------------------------------ tensors
Groups == <<"xyz", "f_dc", "f_rest", "opacity", "scaling", "rotation">>
GroupSet == {Groups[i] : i \in 1..Len(Groups)}

\* a function written as [i \in 1..n |-> e] is made a sequence value
Tensor(f) == f \o <<>>
ByGroup(F) ==
  [xyz |-> F["xyz"], f_dc |-> F["f_dc"], f_rest |-> F["f_rest"],
   opacity |-> F["opacity"], scaling |-> F["scaling"], rotation |-> F["rotation"]]
Zeros(n) == Tensor([i \in 1..n |-> 0])
Falses(n) == Tensor([i \in 1..n |-> FALSE])
Not(m) == Tensor([i \in 1..Len(m) |-> ~m[i]])
Count(m) == Cardinality({i \in 1..Len(m) : m[i]})

\* t[m] for a boolean mask m with Len(m) = Len(t): the rows where m is true, in order
RECURSIVE Index(_, _)
Index(t, m) ==
  IF t = <<>> \/ m = <<>> THEN <<>>
  ELSE (IF Head(m) THEN <<Head(t)>> ELSE <<>>) \o Index(Tail(t), Tail(m))

\* t.repeat(n, ...): n copies of t one after the other
RECURSIVE Repeat(_, _)
Repeat(t, n) == IF n = 0 THEN <<>> ELSE t \o Repeat(t, n - 1)

\* shape of an elementwise operation on lengths a and b; -1 when torch refuses
Broadcast(a, b) == IF a = b THEN a ELSE IF a = 1 THEN b ELSE IF b = 1 THEN a ELSE -1
\* entry i of t expanded to length n
At(t, i) == IF Len(t) = 1 THEN t[1] ELSE t[i]

\* --------------------------------------------------------- arithmetic
RECURSIVE Pow(_, _)
Pow(b, n) == IF n = 0 THEN 1 ELSE b * Pow(b, n - 1)
RatLe(a, b) == a[1] * b[2] <= b[1] * a[2]
RatLt(a, b) == a[1] * b[2] < b[1] * a[2]
RatEq(a, b) == a[1] * b[2] = b[1] * a[2]
RatMax(a, b) == IF RatLe(a, b) THEN b ELSE a

\* torch.exp / torch.log on the log-scale levels
scaling_activation(k) == IF k >= 0 THEN <<Pow(8, k), Pow(5, k)>> ELSE <<Pow(5, -k), Pow(8, -k)>>
scaling_inverse_activation(q) == CHOOSE k \in LogLevels : RatEq(scaling_activation(k), q)
\* torch.max(scaling, dim=1).values of one activated row
RowMax(row) == RatMax(RatMax(row[1], row[2]), row[3])
ActRow(row) == Tensor([c \in 1..3 |-> scaling_activation(row[c])])

\* torch.sigmoid / inverse_sigmoid on the logits the model uses
opacity_activation(x) ==
  CASE x = -5000 -> 67
    [] x = -4595 -> 100
    [] x = 0 -> 5000
    [] x = 1000 -> 7311
inverse_opacity_activation(p) ==
  CASE p = 67 -> -5000
    [] p = 100 -> -4595
    [] p = 5000 -> 0
    [] p = 7311 -> 1000
Min(a, b) == IF a <= b THEN a ELSE b

\* ----------------------------------------------------- the store record
\* The GaussianModel object: `params` are the optimizer's param_groups, which
\* are the tensors self._xyz ... self._rotation; `state` is optimizer.state;
\* `hooked` counts the hooks registered on each tensor now held, `hooks` is
\* self.hooks (its handles are live while they refer to the tensor now held).
NoState == [has |-> FALSE, exp_avg |-> <<>>, exp_avg_sq |-> <<>>]
NoGrad == [has |-> FALSE, v |-> <<>>]
NoHooks == [exists |-> FALSE, live |-> ByGroup([g \in GroupSet |-> FALSE])]
BoolMask(v) == [dtype |-> "bool", v |-> v]
MaskTrue == 10
Ones(n) == Tensor([i \in 1..n |-> MaskTrue])

_xyz(s) == s.params["xyz"]
_features_dc(s) == s.params["f_dc"]
_features_rest(s) == s.params["f_rest"]
_opacity(s) == s.params["opacity"]
_scaling(s) == s.params["scaling"]
_rotation(s) == s.params["rotation"]

Fail(s, e) == [s EXCEPT !.err = e]
Ok(s) == s.err = "none"
\* the mask as an index: only a bool tensor indexes by selection
AsIndex(mask) == Tensor([i \in 1..Len(mask.v) |-> mask.v[i] # 0])

\* nn.Parameter(...) replaces the tensors of groups G: the new tensors carry
\* no hook and no .grad, and the handles in self.hooks refer to the old ones
NewParameters(s, G) ==
  [s EXCEPT !.grad = ByGroup([g \in GroupSet |-> IF g \in G THEN NoGrad ELSE s.grad[g]]),
            !.hooked = ByGroup([g \in GroupSet |-> IF g \in G THEN 0 ELSE s.hooked[g]]),
            !.hooks = [s.hooks EXCEPT !.live = ByGroup([g \in GroupSet |-> IF g \in G THEN FALSE ELSE s.hooks.live[g]])]]

\* ---------------------------------------------------------- accessors
\* what indexing t[self.mask] raises under localize ("none": nothing)
ViewErr(s, t) ==
  IF ~s.localize THEN "none"
  ELSE IF s.mask.dtype # "bool" \/ Len(s.mask.v) # Len(t) THEN "IndexError"
  ELSE "none"
View(s, t) == IF s.localize THEN Index(t, AsIndex(s.mask)) ELSE t
get_xyz(s) == View(s, _xyz(s))
get_scaling(s) == LET t == View(s, _scaling(s)) IN Tensor([i \in 1..Len(t) |-> ActRow(t[i])])
get_opacity(s) == LET t == View(s, _opacity(s)) IN Tensor([i \in 1..Len(t) |-> opacity_activation(t[i])])

\* what a caller of an accessor gets: the rows, or the exception raised
Returned(rows) == [err |-> "none", rows |-> rows]
Raised(e) == [err |-> e, rows |-> <<>>]
\* torch.nn.functional.normalize of a rotation row, which is a tag
rotation_activation(r) == <<"normalize", r>>
get_rotation(s) ==
  LET t == View(s, _rotation(s)) IN Tensor([i \in 1..Len(t) |-> rotation_activation(t[i])])
\* torch.cat((features_dc, features_rest), dim=1)
get_features(s) ==
  LET dc == View(s, _features_dc(s))
      rest == View(s, _features_rest(s))
  IN Tensor([i \in 1..Len(dc) |-> <<dc[i], rest[i]>>])
\* build_covariance_from_scaling_rotation(scaling, scaling_modifier, rotation), row by row
covariance_activation(scaling, rotation) ==
  IF Broadcast(Len(scaling), Len(rotation)) < 0 THEN Raised("RuntimeError")
  ELSE Returned(Tensor([i \in 1..Broadcast(Len(scaling), Len(rotation)) |-> <<At(scaling, i), At(rotation, i)>>]))
\* lines 193-201: under localize the masked get_scaling is indexed with the mask again
get_covariance(s) ==
  IF ~s.localize THEN covariance_activation(get_scaling(s), _rotation(s))
  ELSE IF ViewErr(s, _scaling(s)) # "none" THEN Raised(ViewErr(s, _scaling(s)))
  ELSE IF Len(s.mask.v) # Len(get_scaling(s)) THEN Raised("IndexError")
  ELSE IF ViewErr(s, _rotation(s)) # "none" THEN Raised(ViewErr(s, _rotation(s)))
  ELSE covariance_activation(Index(get_scaling(s), AsIndex(s.mask)), Index(_rotation(s), AsIndex(s.mask)))
\* one read of an accessor on field t
Read(s, t, rows) == IF ViewErr(s, t) # "none" THEN Raised(ViewErr(s, t)) ELSE Returned(rows)

\* ------------------------------------------------- optimizer-state sync
_prune_optimizer(s, mask) ==
  IF \E g \in GroupSet :
       \/ Len(s.params[g]) # Len(mask)
       \/ s.state[g].has /\ (Len(s.state[g].exp_avg) # Len(mask) \/ Len(s.state[g].exp_avg_sq) # Len(mask))
  THEN Fail(s, "IndexError")
  ELSE LET t == [s EXCEPT !.params = ByGroup([g \in GroupSet |-> Index(s.params[g], mask)]),
                          !.state = ByGroup([g \in GroupSet |->
                              IF s.state[g].has
                              THEN [has |-> TRUE,
                                    exp_avg |-> Index(s.state[g].exp_avg, mask),
                                    exp_avg_sq |-> Index(s.state[g].exp_avg_sq, mask)]
                              ELSE s.state[g]])]
       IN NewParameters(t, GroupSet)

\* prune_buffers that indexes the mask with the removal mask
prune_buffers_by_removed(t, mask, valid_points_mask) ==
  IF ~Ok(t) THEN t
  ELSE [t EXCEPT !.xyz_gradient_accum = Index(t.xyz_gradient_accum, valid_points_mask),
                 !.denom = Index(t.denom, valid_points_mask),
                 !.max_radii2D = Index(t.max_radii2D, valid_points_mask),
                 !.mask = [t.mask EXCEPT !.v = Index(t.mask.v, mask)]]

\* lines 507-518: the per-row buffers and the mask, once the optimizer is pruned
prune_buffers(t, mask, valid_points_mask) ==
  IF ~Ok(t) THEN t
  ELSE IF \/ Len(t.xyz_gradient_accum) # Len(mask)
          \/ Len(t.denom) # Len(mask)
          \/ Len(t.max_radii2D) # Len(mask)
          \/ Len(t.mask.v) # Len(mask)
  THEN Fail(t, "IndexError")
  ELSE [t EXCEPT !.xyz_gradient_accum = Index(t.xyz_gradient_accum, valid_points_mask),
                 !.denom = Index(t.denom, valid_points_mask),
                 !.max_radii2D = Index(t.max_radii2D, valid_points_mask),
                 !.mask = [t.mask EXCEPT !.v = Index(t.mask.v, valid_points_mask)]]

prune_points(s, mask) == prune_buffers(_prune_optimizer(s, Not(mask)), mask, Not(mask))

\* cat_tensors_to_optimizer that gives the new rows a moment of 1
cat_tensors_with_momentum(s, tensors_dict) ==
  NewParameters([s EXCEPT !.params = ByGroup([g \in GroupSet |-> s.params[g] \o tensors_dict[g]]),
                          !.state = ByGroup([g \in GroupSet |->
                              IF s.state[g].has
                              THEN [has |-> TRUE,
                                    exp_avg |-> s.state[g].exp_avg \o Zeros(Len(tensors_dict[g])),
                                    exp_avg_sq |-> s.state[g].exp_avg_sq \o Ones(Len(tensors_dict[g]))]
                              ELSE s.state[g]])], GroupSet)

cat_tensors_to_optimizer(s, tensors_dict) ==
  LET t == [s EXCEPT !.params = ByGroup([g \in GroupSet |-> s.params[g] \o tensors_dict[g]]),
                     !.state = ByGroup([g \in GroupSet |->
                         IF s.state[g].has
                         THEN [has |-> TRUE,
                               exp_avg |-> s.state[g].exp_avg \o Zeros(Len(tensors_dict[g])),
                               exp_avg_sq |-> s.state[g].exp_avg_sq \o Zeros(Len(tensors_dict[g]))]
                         ELSE s.state[g]])]
  IN NewParameters(t, GroupSet)

\* reset_accumulators that leaves max_radii2D as it was
reset_accumulators_keeping_radii(t) ==
  IF ViewErr(t, _xyz(t)) # "none" THEN Fail(t, ViewErr(t, _xyz(t)))
  ELSE [t EXCEPT !.xyz_gradient_accum = Zeros(Len(get_xyz(t))),
                 !.denom = Zeros(Len(get_xyz(t)))]

\* lines 581-583: the accumulators start again at zeros(get_xyz.shape[0])
reset_accumulators(t) ==
  IF ViewErr(t, _xyz(t)) # "none" THEN Fail(t, ViewErr(t, _xyz(t)))
  ELSE [t EXCEPT !.xyz_gradient_accum = Zeros(Len(get_xyz(t))),
                 !.denom = Zeros(Len(get_xyz(t))),
                 !.max_radii2D = Zeros(Len(get_xyz(t)))]

densification_postfix(s, d) == reset_accumulators(cat_tensors_to_optimizer(s, d))

\* ------------------------------------------------------ clone and split
\* percent_dense * scene_extent and 0.1 * extent, as rationals
DenseLimit(s, scene_extent) == <<s.percent_dense[1] * scene_extent, s.percent_dense[2]>>
WorldLimit(extent) == <<extent, 10>>
Rows(s, sel) == ByGroup([g \in GroupSet |-> Index(s.params[g], sel)])

\* clone_selection that selects on grads > grad_threshold
clone_selection_strict(s, grads, grad_threshold, scene_extent) ==
  [n |-> Broadcast(Len(grads), Len(get_scaling(s))),
   sel |-> IF Broadcast(Len(grads), Len(get_scaling(s))) < 0 THEN <<>>
           ELSE Tensor([i \in 1..Broadcast(Len(grads), Len(get_scaling(s))) |->
                   /\ RatLt(<<grad_threshold, 1>>, At(grads, i))
                   /\ RatLe(RowMax(At(get_scaling(s), i)), DenseLimit(s, scene_extent))])]

\* selected_pts_mask of densify_and_clone; <<>> with n = -1 when torch refuses
clone_selection(s, grads, grad_threshold, scene_extent) ==
  LET sc == get_scaling(s)
      n == Broadcast(Len(grads), Len(sc))
  IN [n |-> n,
      sel |-> IF n < 0 THEN <<>>
              ELSE Tensor([i \in 1..n |-> /\ RatLe(<<grad_threshold, 1>>, At(grads, i))
                                   /\ RatLe(RowMax(At(sc, i)), DenseLimit(s, scene_extent))])]

\* lines 660-663: the assertion on the selected rows, then the mask is extended
clone_mask(t, selected_pts_mask) ==
  IF ~Ok(t) THEN t
  ELSE IF Len(t.mask.v) # Len(selected_pts_mask) THEN Fail(t, "IndexError")
  ELSE IF \E i \in 1..Len(selected_pts_mask) : selected_pts_mask[i] /\ t.mask.v[i] = 0
  THEN Fail(t, "AssertionError")
  ELSE [t EXCEPT !.mask = [t.mask EXCEPT !.v = t.mask.v \o Index(t.mask.v, selected_pts_mask)]]

\* lines 644-663, c the selection
clone_rows(s, c) ==
  IF c.n < 0 THEN Fail(s, "RuntimeError")
  ELSE IF \E g \in GroupSet : Len(s.params[g]) # c.n THEN Fail(s, "IndexError")
  ELSE clone_mask(densification_postfix(s, Rows(s, c.sel)), c.sel)

densify_and_clone(s, grads, grad_threshold, scene_extent) ==
  IF ViewErr(s, _scaling(s)) # "none" THEN Fail(s, ViewErr(s, _scaling(s)))
  ELSE clone_rows(s, clone_selection(s, grads, grad_threshold, scene_extent))

\* split_selection that selects on max scale >= percent_dense * scene_extent
split_selection_inclusive(s, grads, grad_threshold, scene_extent) ==
  IF ViewErr(s, _xyz(s)) # "none" THEN [err |-> ViewErr(s, _xyz(s)), sel |-> <<>>]
  ELSE IF ViewErr(s, _scaling(s)) # "none" THEN [err |-> ViewErr(s, _scaling(s)), sel |-> <<>>]
  ELSE IF Len(grads) > Len(get_xyz(s)) \/ Broadcast(Len(get_xyz(s)), Len(get_scaling(s))) < 0
  THEN [err |-> "RuntimeError", sel |-> <<>>]
  ELSE [err |-> "none",
        sel |-> Tensor([i \in 1..Broadcast(Len(get_xyz(s)), Len(get_scaling(s))) |->
                   /\ RatLe(<<grad_threshold, 1>>, IF i <= Len(grads) THEN grads[i] ELSE <<0, 1>>)
                   /\ RatLe(DenseLimit(s, scene_extent), RowMax(At(get_scaling(s), i)))])]

\* selected_pts_mask of densify_and_split, with the reason torch refuses if it does
split_selection(s, grads, grad_threshold, scene_extent) ==
  IF ViewErr(s, _xyz(s)) # "none" THEN [err |-> ViewErr(s, _xyz(s)), sel |-> <<>>]
  ELSE IF ViewErr(s, _scaling(s)) # "none" THEN [err |-> ViewErr(s, _scaling(s)), sel |-> <<>>]
  ELSE LET n_init_points == Len(get_xyz(s))
           sc == get_scaling(s)
           n == Broadcast(n_init_points, Len(sc))
           padded_grad == Tensor([i \in 1..n_init_points |-> IF i <= Len(grads) THEN grads[i] ELSE <<0, 1>>])
       IN IF Len(grads) > n_init_points \/ n < 0 THEN [err |-> "RuntimeError", sel |-> <<>>]
          ELSE [err |-> "none",
                sel |-> Tensor([i \in 1..n |-> /\ RatLe(<<grad_threshold, 1>>, At(padded_grad, i))
                                        /\ RatLt(DenseLimit(s, scene_extent), RowMax(At(sc, i)))])]

\* log(scale / (0.8 * N)) of one row
SplitScale(row, N) ==
  Tensor([c \in 1..3 |-> scaling_inverse_activation(<<scaling_activation(row[c])[1] * 5, scaling_activation(row[c])[2] * 4 * N>>)])

\* samples[j]: the rotated normal sample added to the position of offspring j
\* split_offspring with the parents repeated row by row (repeat_interleave)
split_offspring_interleaved(s, selected_pts_mask, N, samples) ==
  ByGroup([g \in GroupSet |->
     Tensor([j \in 1..N * Count(selected_pts_mask) |->
        LET parent == Index(s.params[g], selected_pts_mask)[((j - 1) \div N) + 1]
        IN IF g = "xyz" THEN parent + samples[j]
           ELSE IF g = "scaling" THEN SplitScale(parent, N)
           ELSE parent])])

\* lines 600-618: the rows appended for the selected parents
split_offspring(s, selected_pts_mask, N, samples) ==
  LET from_xyz == Repeat(Index(get_xyz(s), selected_pts_mask), N)
      from_scaling == Repeat(Index(View(s, _scaling(s)), selected_pts_mask), N)
  IN ByGroup([g \in GroupSet |->
        IF g = "xyz" THEN Tensor([j \in 1..Len(from_xyz) |-> from_xyz[j] + samples[j]])
        ELSE IF g = "scaling" THEN Tensor([j \in 1..Len(from_scaling) |-> SplitScale(from_scaling[j], N)])
        ELSE Repeat(Index(s.params[g], selected_pts_mask), N)])

\* lines 619-631: the offspring take their parents' mask value, the parents are pruned
split_mask(t, selected_pts_mask, N) ==
  IF ~Ok(t) THEN t
  ELSE IF Len(t.mask.v) # Len(selected_pts_mask) THEN Fail(t, "IndexError")
  ELSE prune_points([t EXCEPT !.mask = [t.mask EXCEPT !.v = t.mask.v \o Repeat(Index(t.mask.v, selected_pts_mask), N)]],
                    selected_pts_mask \o Falses(N * Count(selected_pts_mask)))

\* lines 598-631, c the selection
split_rows(s, c, N, samples) ==
  IF c.err # "none" THEN Fail(s, c.err)
  ELSE IF \/ \E g \in GroupSet : Len(s.params[g]) # Len(c.sel)
          \/ Len(get_scaling(s)) # Len(c.sel) \/ Len(get_xyz(s)) # Len(c.sel)
  THEN Fail(s, "IndexError")
  ELSE split_mask(densification_postfix(s, split_offspring(s, c.sel, N, samples)), c.sel, N)

densify_and_split(s, grads, grad_threshold, scene_extent, N, samples) ==
  split_rows(s, split_selection(s, grads, grad_threshold, scene_extent), N, samples)

\* ------------------------------------------------------- gradient mask
set_mask(s, mask) == [s EXCEPT !.mask = mask]

\* register_hook on each of the six fields; self.hooks is assigned anew
apply_grad_mask(s, mask) ==
  IF Len(s.mask.v) # Len(_xyz(s)) THEN Fail(s, "AssertionError")
  ELSE LET t == set_mask(s, mask)
       IN [t EXCEPT !.hooks = [exists |-> TRUE, live |-> ByGroup([g \in GroupSet |-> TRUE])],
                    !.hooked = ByGroup([g \in GroupSet |-> t.hooked[g] + 1])]

\* hook.remove() for the handles in self.hooks, then del self.hooks
remove_grad_mask(s) ==
  IF ~s.hooks.exists THEN Fail(s, "AttributeError")
  ELSE [s EXCEPT !.hooked = ByGroup([g \in GroupSet |-> IF s.hooks.live[g] THEN s.hooked[g] - 1 ELSE s.hooked[g]]),
                 !.hooks = NoHooks]

\* position_hook / color_hook on the gradient of one field, once per hook
\* registered on it: grad * self.mask[:, None], the mask read when it runs
hook_error(s, g) ==
  s.hooked[g] > 0 /\ Len(s.mask.v) # Len(s.params[g]) /\ Len(s.mask.v) # 1
hooked_grad(s, g, raw) ==
  Tensor([i \in 1..Len(raw) |-> IF s.hooked[g] > 0 /\ At(s.mask.v, i) = 0 THEN 0 ELSE raw[i]])

\* --------------------------------------------------------------- reset
replace_tensor_to_optimizer(s, tensor, name) ==
  IF ~s.state[name].has THEN Fail(s, "TypeError")
  ELSE LET t == [s EXCEPT !.state[name] = [has |-> TRUE,
                                           exp_avg |-> Zeros(Len(tensor)),
                                           exp_avg_sq |-> Zeros(Len(tensor))],
                          !.params[name] = tensor]
       IN NewParameters(t, {name})

reset_opacity(s) ==
  IF ViewErr(s, _opacity(s)) # "none" THEN Fail(s, ViewErr(s, _opacity(s)))
  ELSE LET opacities_new == Tensor([i \in 1..Len(get_opacity(s)) |->
                               inverse_opacity_activation(Min(get_opacity(s)[i], 100))])
       IN replace_tensor_to_optimizer(s, opacities_new, "opacity")

\* ------------------------------------------------------ density control
\* masked_grads that leaves the gradients of the rows outside densi_mask
masked_grads_unmasked(s) ==
  IF Broadcast(Len(s.xyz_gradient_accum), Len(s.denom)) < 0 THEN [err |-> "RuntimeError", grads |-> <<>>]
  ELSE [err |-> "none",
        grads |-> Tensor([i \in 1..Broadcast(Len(s.xyz_gradient_accum), Len(s.denom)) |->
                     IF At(s.denom, i) = 0 /\ At(s.xyz_gradient_accum, i) = 0 THEN <<0, 1>>
                     ELSE <<At(s.xyz_gradient_accum, i), At(s.denom, i)>>])]

\* grads = xyz_gradient_accum / denom with NaN set to 0, then zeroed outside
\* densi_mask (or, when that indexing raises, multiplied by the mask)
masked_grads(s) ==
  LET n == Broadcast(Len(s.xyz_gradient_accum), Len(s.denom))
      grads == Tensor([i \in 1..n |->
                  IF At(s.denom, i) = 0 /\ At(s.xyz_gradient_accum, i) = 0 THEN <<0, 1>>
                  ELSE <<At(s.xyz_gradient_accum, i), At(s.denom, i)>>])
      densi_mask == Tensor([i \in 1..Len(s.mask.v) |-> s.mask.v[i] > 5])
      m == Broadcast(n, Len(s.mask.v))
  IN IF n < 0 THEN [err |-> "RuntimeError", grads |-> <<>>]
     ELSE IF Len(densi_mask) = n
     THEN [err |-> "none", grads |-> Tensor([i \in 1..n |-> IF densi_mask[i] THEN grads[i] ELSE <<0, 1>>])]
     ELSE IF m < 0 THEN [err |-> "RuntimeError", grads |-> <<>>]
     ELSE [err |-> "none",
           grads |-> Tensor([i \in 1..m |-> <<At(grads, i)[1] * At(s.mask.v, i), At(grads, i)[2] * 10>>])]

\* top_k = int((k_percent / 100) * self.mask.numel())
top_k(s, k_percent) == (k_percent * Len(s.mask.v)) \div 100
\* TopKMasks for a topk that returns the k smallest entries
BottomKMasks(s, k) ==
  {km \in [1..Len(s.mask.v) -> BOOLEAN] :
     /\ Count(km) = k
     /\ \A i, j \in 1..Len(s.mask.v) : km[i] /\ ~km[j] => s.mask.v[i] <= s.mask.v[j]}

\* the index sets torch.topk(self.mask, k) may return, as k_mask
TopKMasks(s, k) ==
  {km \in [1..Len(s.mask.v) -> BOOLEAN] :
     /\ Count(km) = k
     /\ \A i, j \in 1..Len(s.mask.v) : km[i] /\ ~km[j] => s.mask.v[i] >= s.mask.v[j]}

\* lines 680-707: the first densification; k_mask is topk's choice
\* self.remove_grad_mask(); self.apply_grad_mask(self.mask)
reinstall_grad_mask(s) == IF Ok(s) THEN apply_grad_mask(s, s.mask) ELSE s
remove_and_reinstall(s) == IF Ok(s) THEN reinstall_grad_mask(remove_grad_mask(s)) ELSE s

\* lines 702-703: self.mask = self.mask > attn_thres; apply_grad_mask(self.mask)
threshold_mask(u, attn_thres) ==
  IF Ok(u)
  THEN reinstall_grad_mask(set_mask(u, BoolMask(Tensor([i \in 1..Len(u.mask.v) |->
                                         IF u.mask.v[i] > attn_thres THEN MaskTrue ELSE 0]))))
  ELSE u
remove_then(t) == IF Ok(t) THEN remove_grad_mask(t) ELSE t
first_densification(s, attn_thres, k_mask) ==
  threshold_mask(remove_then(prune_points(s, k_mask)), attn_thres)

\* prune_selection without the logical_and with self.mask
prune_selection_unmasked(s, min_opacity, extent, max_screen_size) ==
  [n |-> Len(get_opacity(s)),
   sel |-> Tensor([i \in 1..Len(get_opacity(s)) |->
              \/ At(get_opacity(s), i) < min_opacity
              \/ max_screen_size # 0 /\ At(s.max_radii2D, i) > max_screen_size
              \/ max_screen_size # 0 /\ RatLt(WorldLimit(extent), RowMax(At(get_scaling(s), i)))])]

\* lines 715-723: the mask handed to prune_points; n = -1 when torch refuses
prune_selection(s, min_opacity, extent, max_screen_size) ==
  LET op == get_opacity(s)
      sc == get_scaling(s)
      n0 == Len(op)
      n1 == IF max_screen_size # 0 /\ n0 >= 0 THEN Broadcast(n0, Len(s.max_radii2D)) ELSE n0
      n2 == IF max_screen_size # 0 /\ n1 >= 0 THEN Broadcast(n1, Len(sc)) ELSE n1
      n == IF n2 >= 0 THEN Broadcast(n2, Len(s.mask.v)) ELSE n2
  IN [n |-> n,
      sel |-> IF n < 0 THEN <<>>
              ELSE Tensor([i \in 1..n |->
                      /\ \/ At(op, i) < min_opacity
                         \/ max_screen_size # 0 /\ At(s.max_radii2D, i) > max_screen_size
                         \/ max_screen_size # 0 /\ RatLt(WorldLimit(extent), RowMax(At(sc, i)))
                      /\ At(s.mask.v, i) # 0])]

\* lines 710-713: densify_and_clone, then densify_and_split
densify_after_clone(a, grads, max_grad, extent, samples) ==
  IF Ok(a) THEN densify_and_split(a, grads, max_grad, extent, 2, samples) ELSE a
clone_then_split(s, grads, max_grad, extent, samples) ==
  densify_after_clone(densify_and_clone(s, grads, max_grad, extent), grads, max_grad, extent, samples)

\* lines 709-734: clone, split, opacity/size prune, mask reinstalled
\* lines 715-724: the opacity/size prune of the store b left by clone and split
prune_with(b, p) == IF p.n < 0 THEN Fail(b, "RuntimeError") ELSE prune_points(b, p.sel)
opacity_size_prune(b, min_opacity, extent, max_screen_size) ==
  IF ~Ok(b) THEN b
  ELSE IF ViewErr(b, _opacity(b)) # "none" THEN Fail(b, ViewErr(b, _opacity(b)))
  ELSE IF max_screen_size # 0 /\ ViewErr(b, _scaling(b)) # "none" THEN Fail(b, ViewErr(b, _scaling(b)))
  ELSE prune_with(b, prune_selection(b, min_opacity, extent, max_screen_size))

normal_densification(s, grads, max_grad, min_opacity, extent, max_screen_size, samples) ==
  remove_and_reinstall(opacity_size_prune(clone_then_split(s, grads, max_grad, extent, samples),
                                          min_opacity, extent, max_screen_size))

densify_and_prune(s, max_grad, min_opacity, extent, max_screen_size, is_first_densification, attn_thres, samples, k_mask) ==
  LET g == masked_grads(s)
  IN IF g.err # "none" THEN Fail(s, g.err)
     ELSE IF is_first_densification THEN first_densification(s, attn_thres, k_mask)
     ELSE normal_densification(s, g.grads, max_grad, min_opacity, extent, max_screen_size, samples)

\* -------------------------------------------------- mask prune and merge
\* new_mask: a mask, or NoMask for None
NoMask == [dtype |-> "none", v |-> <<>>]
\* lines 146-149: the mask that replaces the stored one
replace_mask(t, new_mask) ==
  IF ~Ok(t) THEN t
  ELSE IF new_mask # NoMask THEN set_mask(t, new_mask)
  ELSE set_mask(t, [t.mask EXCEPT !.v = Ones(Len(t.mask.v))])
prune_with_mask(s, new_mask) ==
  IF s.mask.dtype # "bool" THEN Fail(s, "TypeError")
  ELSE remove_and_reinstall(replace_mask(prune_points(s, AsIndex(s.mask)), new_mask))

\* another_gaussian: the six tensors of the other store
\* merge_mask that keeps the stored mask as it is
merge_mask_unflipped(t, m) ==
  IF ~Ok(t) THEN t
  ELSE IF t.mask.dtype # "bool" THEN Fail(t, "TypeError")
  ELSE set_mask(t, BoolMask(t.mask.v \o Ones(m)))

\* lines 857-858: the stored mask is inverted, the new rows get True
merge_mask(t, m) ==
  IF ~Ok(t) THEN t
  ELSE IF t.mask.dtype # "bool" THEN Fail(t, "TypeError")
  ELSE set_mask(t, BoolMask(Tensor([i \in 1..Len(t.mask.v) |-> IF t.mask.v[i] # 0 THEN 0 ELSE MaskTrue]) \o Ones(m)))
concat_gaussians(s, another_gaussian) ==
  remove_and_reinstall(merge_mask(densification_postfix(s, another_gaussian), Len(another_gaussian["opacity"])))

\* ------------------------------------------------ set-up and training
\* lines 209-231: point i gives row i its position and colour (tags) and
\* its scale on all three axes; rotations are the identity, f_rest is zero
\* and every opacity logit is 1.0
PcdRows(scales) ==
  ByGroup([g \in GroupSet |->
     Tensor([i \in 1..Len(scales) |->
        CASE g = "xyz" -> 10 * i
          [] g = "f_dc" -> 100 + i
          [] g = "f_rest" -> 200
          [] g = "rotation" -> 300
          [] g = "scaling" -> <<scales[i], scales[i], scales[i]>>
          [] g = "opacity" -> 1000])])
\* lines 243-254: max_radii2D, the all-ones mask and its hooks
install_initial_mask(t) ==
  apply_grad_mask(set_mask([t EXCEPT !.max_radii2D = Zeros(Len(get_xyz(t)))], BoolMask(Ones(Len(_opacity(t))))),
                  BoolMask(Ones(Len(_opacity(t)))))
create_from_pcd(s, scales) ==
  install_initial_mask(NewParameters([s EXCEPT !.params = PcdRows(scales)], GroupSet))

training_setup(s) ==
  [s EXCEPT !.percent_dense = PercentDense,
            !.xyz_gradient_accum = Zeros(Len(get_xyz(s))),
            !.denom = Zeros(Len(get_xyz(s))),
            !.optimizer = TRUE,
            !.state = ByGroup([g \in GroupSet |-> NoState])]

\* loss.backward(): every rendered row receives a non-zero gradient (1), which
\* the hooks registered on the tensor then multiply by the mask
backward(s) ==
  IF \E g \in GroupSet : ViewErr(s, s.params[g]) # "none" THEN Fail(s, "IndexError")
  ELSE IF \E g \in GroupSet : hook_error(s, g) THEN Fail(s, "RuntimeError")
  ELSE [s EXCEPT !.grad = ByGroup([g \in GroupSet |->
          [has |-> TRUE,
           v |-> hooked_grad(s, g, Tensor([i \in 1..Len(s.params[g]) |->
                                      IF s.localize /\ ~AsIndex(s.mask)[i] THEN 0 ELSE 1]))]])]

\* optimizer.step(); optimizer.zero_grad(): Adam creates the moments of a
\* parameter that has a gradient and moves them where the gradient is not
\* zero.  The values Adam computes are arbitrary per-row numbers: a moved
\* moment is stamped with its group, its kind and the tag of its row.
GroupIdx(g) == CHOOSE i \in 1..Len(Groups) : Groups[i] = g
Stamp(s, g, i) == 1000 * GroupIdx(g) + (IF i <= Len(_features_dc(s)) THEN _features_dc(s)[i] ELSE 0)
optimizer_step(s) ==
  [s EXCEPT !.state = ByGroup([g \in GroupSet |->
        IF ~s.grad[g].has THEN s.state[g]
        ELSE LET n == Len(s.grad[g].v)
                 old == IF s.state[g].has THEN s.state[g]
                        ELSE [has |-> TRUE, exp_avg |-> Zeros(n), exp_avg_sq |-> Zeros(n)]
             IN [has |-> TRUE,
                 exp_avg |-> Tensor([i \in 1..n |-> IF s.grad[g].v[i] # 0 THEN Stamp(s, g, i) ELSE old.exp_avg[i]]),
                 exp_avg_sq |-> Tensor([i \in 1..n |-> IF s.grad[g].v[i] # 0 THEN 500 + Stamp(s, g, i) ELSE old.exp_avg_sq[i]])]]),
            !.grad = ByGroup([g \in GroupSet |-> NoGrad])]

\* the driver's max_radii2D[visibility_filter] = max(max_radii2D, radii)
update_max_radii2D(s, visibility_filter, radii) ==
  IF Len(visibility_filter) # Len(s.max_radii2D) THEN Fail(s, "IndexError")
  ELSE [s EXCEPT !.max_radii2D = Tensor([i \in 1..Len(s.max_radii2D) |->
          IF visibility_filter[i] /\ radii > s.max_radii2D[i] THEN radii ELSE s.max_radii2D[i]])]

add_densification_stats(s, norm, update_filter) ==
  IF Len(update_filter) # Len(s.xyz_gradient_accum) \/ Len(update_filter) # Len(s.denom)
  THEN Fail(s, "IndexError")
  ELSE [s EXCEPT !.xyz_gradient_accum = Tensor([i \in 1..Len(s.xyz_gradient_accum) |->
                    IF update_filter[i] THEN s.xyz_gradient_accum[i] + norm ELSE s.xyz_gradient_accum[i]]),
                 !.denom = Tensor([i \in 1..Len(s.denom) |->
                    IF update_filter[i] THEN s.denom[i] + 1 ELSE s.denom[i]])]

\* ================================================================ state
\* store: the GaussianModel and its optimizer; op: the call that produced it;
\* calls: how many operations the set-up store has been put through (a training
\* iteration is not counted)
VARIABLES store, op, calls
vars == <<store, op, calls>>

\* GaussianModel.__init__
NewStore ==
  [params |-> ByGroup([g \in GroupSet |-> <<>>]),
   state |-> ByGroup([g \in GroupSet |-> NoState]),
   optimizer |-> FALSE,
   grad |-> ByGroup([g \in GroupSet |-> NoGrad]),
   hooked |-> ByGroup([g \in GroupSet |-> 0]),
   hooks |-> NoHooks,
   xyz_gradient_accum |-> <<>>,
   denom |-> <<>>,
   max_radii2D |-> <<>>,
   mask |-> NoMask,
   localize |-> FALSE,
   percent_dense |-> <<0, 1>>,
   err |-> "none"]

Init == store = NewStore /\ op = [name |-> "__init__"] /\ calls = 0

N == Len(_xyz(store))
Ready == store.optimizer /\ store.err = "none"
\* the operation ran to r; o records its name and arguments
Commit(r, o) ==
  /\ calls < MaxCalls
  /\ \A g \in GroupSet : Len(r.params[g]) <= MaxN
  /\ \A g \in GroupSet : r.hooked[g] <= MaxHooks
  /\ store' = r
  /\ op' = o
  /\ calls' = IF Ready /\ o.name # "train_step" THEN calls + 1 ELSE calls
BoolSeqs(n) == [1..n -> BOOLEAN]
MaskOf(b) == BoolMask(Tensor([i \in 1..Len(b) |-> IF b[i] THEN MaskTrue ELSE 0]))
GradChoices == {<<0, 1>>, <<2, 1>>}

\* rows i = 1..n of another store: tags for the attributes the code only
\* copies, the chosen scale and opacity
OtherRows(first, rows) ==
  ByGroup([g \in GroupSet |->
     Tensor([i \in 1..Len(rows) |->
        CASE g = "xyz" -> 10 * (first + i)
          [] g = "f_dc" -> 100 + first + i
          [] g = "f_rest" -> 200 + first + i
          [] g = "rotation" -> 300 + first + i
          [] g = "scaling" -> rows[i][1]
          [] g = "opacity" -> rows[i][2]])])

\* -------------------------------------------------------------- actions
CreateFromPcd ==
  /\ store.mask = NoMask /\ store.err = "none"
  /\ \E n \in 1..MaxInit : \E scales \in [1..n -> PcdScales] :
       Commit(create_from_pcd(store, scales), [name |-> "create_from_pcd"])

TrainingSetup ==
  /\ store.mask # NoMask /\ ~store.optimizer /\ store.err = "none"
  /\ Commit(training_setup(store), [name |-> "training_setup"])

\* one iteration of the training loop: loss.backward(), optimizer.step()
TrainStep ==
  /\ Ready
  /\ LET t == backward(store)
     IN Commit(IF Ok(t) THEN optimizer_step(t) ELSE t, [name |-> "train_step", grad |-> t.grad])

AddDensificationStats ==
  /\ Ready
  /\ ViewErr(store, _xyz(store)) = "none"
  /\ \E f \in BoolSeqs(Len(get_xyz(store))) : \E norm \in GradNorms : \E radii \in RadiiSeen :
       /\ \E i \in 1..Len(f) : f[i]
       /\ \A i \in 1..Len(f) : f[i] /\ i <= Len(store.denom) => store.denom[i] < MaxDenom
       /\ LET t == update_max_radii2D(store, f, radii)
          IN Commit(IF Ok(t) THEN add_densification_stats(t, norm, f) ELSE t,
                    [name |-> "add_densification_stats", update_filter |-> f])

DensifyAndClone ==
  /\ Ready
  /\ \E grads \in [1..N -> GradChoices] : \E grad_threshold \in MaxGradChoices \ {0} : \E scene_extent \in ExtentChoices :
       Commit(densify_and_clone(store, grads, grad_threshold, scene_extent),
              [name |-> "densify_and_clone", grads |-> grads,
               grad_threshold |-> grad_threshold, scene_extent |-> scene_extent])

DensifyAndSplit ==
  /\ Ready
  /\ \E grads \in [1..N -> GradChoices] : \E grad_threshold \in MaxGradChoices \ {0} : \E scene_extent \in ExtentChoices :
       \E samples \in [1..2 * Count(split_selection(store, grads, grad_threshold, scene_extent).sel) -> SampleSet] :
         Commit(densify_and_split(store, grads, grad_threshold, scene_extent, 2, samples),
                [name |-> "densify_and_split", grads |-> grads,
                 grad_threshold |-> grad_threshold, scene_extent |-> scene_extent, samples |-> samples])

PrunePoints ==
  /\ Ready
  /\ \E mask \in BoolSeqs(N) :
       Commit(prune_points(store, mask), [name |-> "prune_points", mask |-> mask])

PruneWithMask ==
  /\ Ready
  /\ \E new_mask \in {NoMask} \cup {MaskOf(b) : b \in BoolSeqs(Count(Tensor([i \in 1..Len(store.mask.v) |-> store.mask.v[i] = 0])))} :
       Commit(prune_with_mask(store, new_mask), [name |-> "prune_with_mask", new_mask |-> new_mask])

ConcatGaussians ==
  /\ Ready
  /\ \E n \in 1..MaxOther : \E rows \in [1..n -> RowKinds] :
       Commit(concat_gaussians(store, OtherRows(5, rows)),
              [name |-> "concat_gaussians", another_gaussian |-> OtherRows(5, rows)])

\* the rows densify_and_split selects once densify_and_clone has run
SplitCount(s, max_grad, extent) ==
  LET g == masked_grads(s)
      a == IF g.err = "none" THEN densify_and_clone(s, g.grads, max_grad, extent) ELSE s
  IN IF g.err = "none" /\ Ok(a) THEN Count(split_selection(a, g.grads, max_grad, extent).sel) ELSE 0

DensifyAndPrune ==
  /\ Ready
  /\ \E a \in DensifyArgs :
     LET max_grad == a[1]
         min_opacity == a[2]
         extent == a[3]
         max_screen_size == a[4]
     IN
     \E samples \in [1..2 * SplitCount(store, max_grad, extent) -> SampleSet] :
       Commit(densify_and_prune(store, max_grad, min_opacity, extent, max_screen_size, FALSE, 0, samples, <<>>),
              [name |-> "densify_and_prune", is_first_densification |-> FALSE,
               max_grad |-> max_grad, min_opacity |-> min_opacity, extent |-> extent,
               max_screen_size |-> max_screen_size, samples |-> samples,
               before |-> Len(get_xyz(store)),
               after_clone |-> IF masked_grads(store).err = "none"
                               THEN densify_and_clone(store, masked_grads(store).grads, max_grad, extent)
                               ELSE Fail(store, masked_grads(store).err),
               after_split |-> IF masked_grads(store).err = "none"
                               THEN clone_then_split(store, masked_grads(store).grads, max_grad, extent, samples)
                               ELSE Fail(store, masked_grads(store).err)])

FirstDensification ==
  /\ Ready
  /\ store.mask.dtype = "float"
  /\ \E k_percent \in KPercentChoices : \E attn_thres \in AttnChoices :
     \E k_mask \in TopKMasks(store, top_k(store, k_percent)) :
       Commit(densify_and_prune(store, 0, 0, 0, 0, TRUE, attn_thres, <<>>, k_mask),
              [name |-> "densify_and_prune", is_first_densification |-> TRUE,
               k_percent |-> k_percent, attn_thres |-> attn_thres, k_mask |-> k_mask])

ResetOpacity ==
  /\ Ready
  /\ Commit(reset_opacity(store), [name |-> "reset_opacity"])

\* the driver hands the store real-valued weights before the first densification
SetMask ==
  /\ Ready
  /\ \E w \in [1..N -> WeightChoices] :
       Commit(set_mask(store, [dtype |-> "float", v |-> w]), [name |-> "set_mask"])

ApplyGradMask ==
  /\ Ready
  /\ \E mask \in {MaskOf(b) : b \in BoolSeqs(N)} \cup {BoolMask(Ones(N + 1))} :
       Commit(apply_grad_mask(store, mask), [name |-> "apply_grad_mask", mask |-> mask])

RemoveGradMask ==
  /\ Ready
  /\ Commit(remove_grad_mask(store), [name |-> "remove_grad_mask"])

SetLocalize ==
  /\ Ready
  /\ Commit([store EXCEPT !.localize = ~store.localize], [name |-> "localize"])

\* the renderer reads every accessor of the store
ReadAccessors ==
  /\ Ready
  /\ Commit(store, [name |-> "read_accessors",
                    get_xyz |-> Read(store, _xyz(store), get_xyz(store)),
                    get_scaling |-> Read(store, _scaling(store), get_scaling(store)),
                    get_rotation |-> Read(store, _rotation(store), get_rotation(store)),
                    get_opacity |-> Read(store, _opacity(store), get_opacity(store)),
                    get_features |-> Read(store, _features_dc(store), get_features(store)),
                    get_covariance |-> get_covariance(store)])

\* ------------------------------------------------------- specifications
SetUp ==
  \/ CreateFromPcd
  \/ TrainingSetup

\* the store driven through its set-up, the training loop and the
\* population-changing operations
StoreNext ==
  \/ SetUp
  \/ TrainStep
  \/ AddDensificationStats
  \/ DensifyAndClone
  \/ DensifyAndSplit
  \/ PrunePoints
  \/ PruneWithMask
  \/ ConcatGaussians
  \/ DensifyAndPrune
  \/ ResetOpacity
StoreSpec == Init /\ [][StoreNext]_vars

\* the training loop with its density-control cycles, mask prunes, merges
\* and opacity resets
CycleNext ==
  \/ SetUp
  \/ TrainStep
  \/ AddDensificationStats
  \/ DensifyAndPrune
  \/ PruneWithMask
  \/ ConcatGaussians
  \/ ResetOpacity
CycleSpec == Init /\ [][CycleNext]_vars

\* the first densification cycle, which the driver runs on real-valued weights
FirstNext ==
  \/ SetUp
  \/ AddDensificationStats
  \/ ConcatGaussians
  \/ SetMask
  \/ FirstDensification
FirstSpec == Init /\ [][FirstNext]_vars

\* the training loop with the gradient mask and the local view
Next ==
  \/ SetUp
  \/ TrainStep
  \/ ApplyGradMask
  \/ RemoveGradMask
  \/ ResetOpacity
  \/ PruneWithMask
  \/ ConcatGaussians
  \/ SetLocalize
Spec == Init /\ [][Next]_vars

\* the local view: masks are installed, the view is switched and the
\* accessors are read
ViewNext ==
  \/ SetUp
  \/ TrainStep
  \/ ApplyGradMask
  \/ ConcatGaussians
  \/ SetLocalize
  \/ ReadAccessors
ViewSpec == Init /\ [][ViewNext]_vars

\* ================================================================ claims
\* the per-row arrays of a store, and the groups that have Adam moments
PerRow(s) ==
  <<_xyz(s), _features_dc(s), _features_rest(s), _opacity(s), _scaling(s), _rotation(s),
    s.xyz_gradient_accum, s.denom, s.max_radii2D, s.mask.v>>
\* the j-th smallest index of the set S
NthOf(S, j) == CHOOSE i \in S : Cardinality({x \in S : x <= i}) = j
\* new holds exactly the rows of old at the indices S, in their order
Picked(old, new, S) ==
  /\ Len(new) = Cardinality(S)
  /\ \A j \in 1..Len(new) : new[j] = old[NthOf(S, j)]

\* C1: in a set-up store on which every operation so far has completed, the
\* six attribute arrays, xyz_gradient_accum, denom, max_radii2D, the mask and
\* every existing exp_avg / exp_avg_sq buffer have the same length N.
C1_LengthInvariant ==
  Ready =>
    /\ \A k \in 1..Len(PerRow(store)) : Len(PerRow(store)[k]) = N
    /\ \A g \in GroupSet : store.state[g].has =>
          Len(store.state[g].exp_avg) = N /\ Len(store.state[g].exp_avg_sq) = N

\* a cycle of clone, split and prune has completed on a trained store and
\* left a population other than the one that was loaded
C1_Witness ==
  /\ Ready /\ op.name = "densify_and_prune" /\ calls = MaxCalls
  /\ N = 3 /\ store.state["xyz"].has

\* C2: after prune_points(mask), row j of every per-row array and of every
\* moment buffer is the old row at the index of the j-th kept entry.
C2_IndexCorrespondence ==
  [][op'.name = "prune_points" /\ Ok(store') =>
       LET kept == {i \in 1..Len(op'.mask) : ~op'.mask[i]}
       IN /\ \A k \in 1..Len(PerRow(store)) : Picked(PerRow(store)[k], PerRow(store')[k], kept)
          /\ \A g \in GroupSet :
               /\ store'.state[g].has = store.state[g].has
               /\ store.state[g].has =>
                    /\ Picked(store.state[g].exp_avg, store'.state[g].exp_avg, kept)
                    /\ Picked(store.state[g].exp_avg_sq, store'.state[g].exp_avg_sq, kept)]_vars

\* the first of three or more rows was removed from a trained store whose
\* accumulators and mask are not uniform, so that the kept rows moved up
C2_Witness ==
  /\ Ready /\ op.name = "prune_points"
  /\ Len(op.mask) >= 3 /\ op.mask[1] /\ ~op.mask[2] /\ ~op.mask[3]
  /\ store.state["xyz"].has /\ store.state["xyz"].exp_avg[1] # 0
  /\ \E i, j \in 1..N : store.mask.v[i] # store.mask.v[j]
  /\ \E i \in 1..N : store.denom[i] # 0

\* C3: after m rows are appended (densify_and_clone, concat_gaussians), the
\* last m entries of xyz_gradient_accum, denom and max_radii2D are zero, the
\* moments of the m new rows are zero, and the moments of the old rows keep
\* their values and positions.
C3_AppendZeroInit ==
  [][op'.name \in {"densify_and_clone", "concat_gaussians"} /\ Ok(store') =>
       LET n == Len(_xyz(store))
           new == (n + 1)..Len(_xyz(store'))
       IN /\ Len(_xyz(store')) >= n
          /\ \A i \in new : /\ store'.xyz_gradient_accum[i] = 0
                            /\ store'.denom[i] = 0
                            /\ store'.max_radii2D[i] = 0
          /\ \A g \in GroupSet :
               /\ store'.state[g].has = store.state[g].has
               /\ store.state[g].has =>
                    /\ \A i \in 1..n : /\ store'.state[g].exp_avg[i] = store.state[g].exp_avg[i]
                                       /\ store'.state[g].exp_avg_sq[i] = store.state[g].exp_avg_sq[i]
                    /\ \A i \in new : /\ store'.state[g].exp_avg[i] = 0
                                      /\ store'.state[g].exp_avg_sq[i] = 0]_vars

\* a row was cloned in a store whose optimizer already held non-zero moments
C3_Witness ==
  /\ Ready /\ op.name = "densify_and_clone"
  /\ N > Len(op.grads)
  /\ store.state["xyz"].has /\ store.state["xyz"].exp_avg[1] # 0

\* max over the three axes of exp(_scaling[i]), and percent_dense * scene_extent
MaxScale(s, i) == RatMax(RatMax(scaling_activation(_scaling(s)[i][1]), scaling_activation(_scaling(s)[i][2])),
                         scaling_activation(_scaling(s)[i][3]))
\* the rows whose gradient norm reaches the threshold
HighGradient(s, grads, grad_threshold) ==
  {i \in 1..Len(_xyz(s)) : grads[i][1] >= grad_threshold * grads[i][2]}
Small(s, i, scene_extent) ==
  MaxScale(s, i)[1] * s.percent_dense[2] <= s.percent_dense[1] * scene_extent * MaxScale(s, i)[2]

C5_SplitReplacement ==
  [][op'.name = "densify_and_split" /\ Ok(store') =>
       LET P == Len(_xyz(store))
           S == {i \in HighGradient(store, op'.grads, op'.grad_threshold) : ~Small(store, i, op'.scene_extent)}
           k == Cardinality(S)
           U == (1..P) \ S
           parent(j) == NthOf(S, ((j - 1) % k) + 1)
       IN /\ \A g \in GroupSet :
               /\ Len(store'.params[g]) = P + k
               /\ \A j \in 1..(P - k) : store'.params[g][j] = store.params[g][NthOf(U, j)]
          /\ Len(store'.mask.v) = P + k
          /\ \A j \in 1..(P - k) : store'.mask.v[j] = store.mask.v[NthOf(U, j)]
          /\ \A j \in 1..(2 * k) :
               /\ \A g \in {"rotation", "f_dc", "f_rest", "opacity"} :
                    store'.params[g][P - k + j] = store.params[g][parent(j)]
               /\ store'.mask.v[P - k + j] = store.mask.v[parent(j)]
               /\ _xyz(store')[P - k + j] = _xyz(store)[parent(j)] + op'.samples[j]
               /\ \A c \in 1..3 : _scaling(store')[P - k + j][c] = _scaling(store)[parent(j)][c] - 1]_vars

\* both rows of a store were split: four offspring, two per parent, replace them
C5_Witness ==
  /\ Ready /\ op.name = "densify_and_split"
  /\ Len(op.grads) = 2 /\ N = 4
  /\ _features_dc(store)[1] # _features_dc(store)[2]
  /\ _features_dc(store)[3] = _features_dc(store)[1]
  /\ \A i \in 1..4 : _scaling(store)[i] = <<0, 0, 0>>

\* the rows of a store whose mask entry is false
Protected(s) == {i \in 1..Len(s.mask.v) : s.mask.v[i] = 0}

\* C6: the opacity/size prune of densify_and_prune removes no row whose mask
\* entry is false: those rows of the store left by clone and split are all
\* there afterwards, in order; and a store whose flags are all false loses
\* no row.
C6_MaskProtection ==
  [][op'.name = "densify_and_prune" /\ ~op'.is_first_densification
       /\ Ok(op'.after_split) /\ Ok(store') =>
       LET b == op'.after_split
       IN /\ Cardinality(Protected(store')) = Cardinality(Protected(b))
          /\ \A k \in 1..Len(PerRow(b)) :
               \A j \in 1..Cardinality(Protected(b)) :
                  PerRow(store')[k][NthOf(Protected(store'), j)] = PerRow(b)[k][NthOf(Protected(b), j)]
          /\ (Protected(b) = 1..Len(b.mask.v) => Len(_xyz(store')) = Len(_xyz(b)))]_vars

\* a cycle removed an optimizable row and kept a non-optimizable row whose
\* opacity is under min_opacity
C6_Witness ==
  /\ Ready /\ op.name = "densify_and_prune" /\ ~op.is_first_densification
  /\ N < Len(_xyz(op.after_split))
  /\ \E i \in 1..N : store.mask.v[i] = 0 /\ get_opacity(store)[i] < op.min_opacity

\* C7: at every backward pass that follows initialisation, control cycles,
\* prune_with_mask, concat_gaussians and reset_opacity, each of the six
\* tensors the store holds has a hook installed, and every row whose mask
\* entry is false receives zero gradient for every attribute.
C7_GradientMasked ==
  [][op'.name = "train_step" /\ Ok(store') =>
       \A g \in GroupSet :
          /\ store.hooked[g] >= 1
          /\ \A i \in 1..Len(store.mask.v) : store.mask.v[i] = 0 => op'.grad[g].v[i] = 0]_vars

\* C8: no tensor the store holds ever carries more than one hook: a second
\* apply_grad_mask without a remove_grad_mask in between fails instead.
C8_NeverStacked ==
  \A g \in GroupSet : store.hooked[g] <= 1

\* C9: apply_grad_mask(mask) with a mask whose length is not the population N
\* fails and does not install that mask.
C9_MaskLengthChecked ==
  [][op'.name = "apply_grad_mask" /\ Len(op'.mask.v) # Len(_xyz(store)) =>
       ~Ok(store') /\ store'.mask = store.mask]_vars

\* C10: a completed reset_opacity leaves the population unchanged, leaves
\* opacity with N rows and zero moments of length N, and leaves the other
\* five attributes, their moments, the accumulators and the mask as they were.
C10_OpacityResetFrame ==
  [][op'.name = "reset_opacity" /\ Ok(store') =>
       /\ Len(_xyz(store')) = Len(_xyz(store))
       /\ Len(_opacity(store')) = Len(_xyz(store))
       /\ store'.state["opacity"].has
       /\ store'.state["opacity"].exp_avg = Zeros(Len(_xyz(store)))
       /\ store'.state["opacity"].exp_avg_sq = Zeros(Len(_xyz(store)))
       /\ \A g \in GroupSet \ {"opacity"} :
            store'.params[g] = store.params[g] /\ store'.state[g] = store.state[g]
       /\ store'.xyz_gradient_accum = store.xyz_gradient_accum
       /\ store'.denom = store.denom
       /\ store'.max_radii2D = store.max_radii2D
       /\ store'.mask = store.mask]_vars

\* C11: a completed concat_gaussians on N1 rows with mask m and another store
\* of N2 rows leaves N1 + N2 rows: rows 1..N1 keep their six attributes and
\* carry the negation of m, rows N1+1..N1+N2 are the other store's rows in
\* order with mask true, the moments of the imported rows are zero, and each
\* of the six tensors carries exactly one hook, whose handle self.hooks holds.
C11_PopulationMerge ==
  [][op'.name = "concat_gaussians" /\ Ok(store') =>
       LET N1 == Len(_xyz(store))
           other == op'.another_gaussian
           N2 == Len(other["xyz"])
       IN /\ \A g \in GroupSet :
               /\ Len(store'.params[g]) = N1 + N2
               /\ \A i \in 1..N1 : store'.params[g][i] = store.params[g][i]
               /\ \A j \in 1..N2 : store'.params[g][N1 + j] = other[g][j]
               /\ store'.state[g].has =>
                    \A j \in 1..N2 : /\ store'.state[g].exp_avg[N1 + j] = 0
                                     /\ store'.state[g].exp_avg_sq[N1 + j] = 0
               /\ store'.hooked[g] = 1
               /\ store'.hooks.exists /\ store'.hooks.live[g]
          /\ store'.mask.dtype = "bool"
          /\ Len(store'.mask.v) = N1 + N2
          /\ \A i \in 1..N1 : (store'.mask.v[i] # 0) = (store.mask.v[i] = 0)
          /\ \A j \in 1..N2 : store'.mask.v[N1 + j] # 0]_vars

\* a second merge, of two rows, on a trained store: the row of the first
\* merge, which was optimizable, is now frozen, and the row frozen by it is
\* optimizable again
C11_Witness ==
  /\ Ready /\ op.name = "concat_gaussians"
  /\ Len(op.another_gaussian["xyz"]) = 2 /\ N = 4
  /\ store.mask.v[1] # 0 /\ store.mask.v[2] = 0 /\ store.mask.v[3] # 0 /\ store.mask.v[4] # 0
  /\ _features_dc(store)[3] # _features_dc(store)[4]
  /\ store.state["xyz"].has /\ store.state["xyz"].exp_avg[1] # 0

\* the averaged gradient norms a control cycle works with: xyz_gradient_accum
\* / denom, zero where nothing was accumulated or the mask entry is false
CycleGrads(s) ==
  Tensor([i \in 1..Len(_xyz(s)) |->
     IF s.mask.v[i] = 0 \/ s.denom[i] = 0 THEN <<0, 1>> ELSE <<s.xyz_gradient_accum[i], s.denom[i]>>])
\* the optimizable rows of b that meet a criterion of the opacity/size prune
PruneSet(b, min_opacity, extent, max_screen_size) ==
  {i \in 1..Len(_xyz(b)) :
     /\ b.mask.v[i] # 0
     /\ \/ opacity_activation(_opacity(b)[i]) < min_opacity
        \/ max_screen_size # 0 /\ b.max_radii2D[i] > max_screen_size
        \/ max_screen_size # 0 /\ MaxScale(b, i)[1] * 10 > extent * MaxScale(b, i)[2]}

\* C12: in a completed normal densify_and_prune cycle on P rows, clone acts
\* first, on the P rows; split acts on the store clone left and selects only
\* among the first P rows, so every row clone appended is kept by split; and
\* the opacity/size prune acts on the store split left, offspring included.
C12_CycleOrdering ==
  [][op'.name = "densify_and_prune" /\ ~op'.is_first_densification /\ Ok(store') =>
       LET P == Len(_xyz(store))
           a == op'.after_clone
           b == op'.after_split
           High == HighGradient(store, CycleGrads(store), op'.max_grad)
           C == {i \in High : Small(store, i, op'.extent)}
           S == {i \in High : ~Small(store, i, op'.extent)}
           Kept == (1..(P + Cardinality(C))) \ S
           Left == (1..Len(_xyz(b))) \ PruneSet(b, op'.min_opacity, op'.extent, op'.max_screen_size)
       IN /\ Ok(a) /\ Ok(b)
          /\ \A g \in GroupSet :
               /\ Len(a.params[g]) = P + Cardinality(C)
               /\ \A i \in 1..P : a.params[g][i] = store.params[g][i]
               /\ \A j \in 1..Cardinality(C) : a.params[g][P + j] = store.params[g][NthOf(C, j)]
               /\ Len(b.params[g]) = P + Cardinality(C) + Cardinality(S)
               /\ \A j \in 1..Cardinality(Kept) : b.params[g][j] = a.params[g][NthOf(Kept, j)]
               /\ Picked(b.params[g], store'.params[g], Left)
          /\ \A j \in 1..(2 * Cardinality(S)) :
               _features_dc(b)[Cardinality(Kept) + j] = _features_dc(store)[NthOf(S, ((j - 1) % Cardinality(S)) + 1)]
          /\ Picked(b.mask.v, store'.mask.v, Left)]_vars

\* a cycle cloned a row, then split another, then pruned offspring of the split
C12_Witness ==
  /\ Ready /\ op.name = "densify_and_prune" /\ ~op.is_first_densification
  /\ Len(_xyz(op.after_clone)) > op.before
  /\ Len(_xyz(op.after_split)) > Len(_xyz(op.after_clone))
  /\ N < Len(_xyz(op.after_split))
  /\ \E i \in (Len(_xyz(op.after_clone)))..Len(_xyz(op.after_split)) :
        i \in PruneSet(op.after_split, op.min_opacity, op.extent, op.max_screen_size)

\* C13: when densify_and_prune returns, on the normal path and on the first
\* densification path alike, xyz_gradient_accum, denom and max_radii2D are
\* zeros of the length of the new population, and each of the six tensors
\* carries a hook whose handle self.hooks holds.
C13_AccumulatorsReset ==
  [][op'.name = "densify_and_prune" /\ Ok(store') =>
       /\ store'.xyz_gradient_accum = Zeros(Len(_xyz(store')))
       /\ store'.denom = Zeros(Len(_xyz(store')))
       /\ store'.max_radii2D = Zeros(Len(_xyz(store')))
       /\ store'.hooks.exists
       /\ \A g \in GroupSet : store'.hooked[g] >= 1 /\ store'.hooks.live[g]]_vars

\* C14: in a completed normal cycle, the rows of the store left by clone and
\* split that are removed are exactly the optimizable ones with opacity <
\* min_opacity, or max_radii2D as held when the cycle started > max_screen_size
\* (when max_screen_size is set), or max scale > 0.1 * extent; a row created in
\* this cycle has had no footprint observed.
C14_PruneSetExact ==
  [][op'.name = "densify_and_prune" /\ ~op'.is_first_densification /\ Ok(store') =>
       LET P == Len(_xyz(store))
           a == op'.after_clone
           b == op'.after_split
           S == {i \in HighGradient(store, CycleGrads(store), op'.max_grad) : ~Small(store, i, op'.extent)}
           Kept == (1..Len(_xyz(a))) \ S
           radius(j) == IF j <= Cardinality(Kept) /\ NthOf(Kept, j) <= P
                        THEN store.max_radii2D[NthOf(Kept, j)] ELSE 0
           Removed == {j \in 1..Len(_xyz(b)) :
                         /\ b.mask.v[j] # 0
                         /\ \/ opacity_activation(_opacity(b)[j]) < op'.min_opacity
                            \/ op'.max_screen_size # 0 /\ radius(j) > op'.max_screen_size
                            \/ MaxScale(b, j)[1] * 10 > op'.extent * MaxScale(b, j)[2]}
       IN \A g \in GroupSet : Picked(b.params[g], store'.params[g], (1..Len(_xyz(b))) \ Removed)]_vars

Optimizable(s) == {i \in 1..Len(s.mask.v) : s.mask.v[i] # 0}

\* C16: on a store whose mask holds one boolean flag per row, every accessor
\* read succeeds; under localize it returns one row per optimizable row, in
\* store order, and without localize it returns all N rows.
C16_LocalViewAccessors ==
  [][op'.name = "read_accessors" /\ store.mask.dtype = "bool" /\ Len(store.mask.v) = Len(_xyz(store)) =>
       LET V == IF store.localize THEN Optimizable(store) ELSE 1..Len(_xyz(store))
           row(j) == NthOf(V, j)
       IN /\ \A a \in {"get_xyz", "get_scaling", "get_rotation", "get_opacity", "get_features", "get_covariance"} :
               op'[a].err = "none" /\ Len(op'[a].rows) = Cardinality(V)
          /\ \A j \in 1..Cardinality(V) :
               /\ op'.get_xyz.rows[j] = _xyz(store)[row(j)]
               /\ op'.get_scaling.rows[j] = ActRow(_scaling(store)[row(j)])
               /\ op'.get_rotation.rows[j] = rotation_activation(_rotation(store)[row(j)])
               /\ op'.get_opacity.rows[j] = opacity_activation(_opacity(store)[row(j)])
               /\ op'.get_features.rows[j] = <<_features_dc(store)[row(j)], _features_rest(store)[row(j)]>>
               /\ op'.get_covariance.rows[j] = <<ActRow(_scaling(store)[row(j)]), _rotation(store)[row(j)]>>]_vars

\* C17: a normal densify_and_prune with max_grad > 0 never fails the clone
\* assertion, and when it returns the rows whose mask entry is false are the
\* same rows as before, once each and in the same order, with their six
\* attributes and their exp_avg / exp_avg_sq rows unchanged and their mask
\* entry still false.
C17_FrozenRowsUntouched ==
  [][op'.name = "densify_and_prune" /\ ~op'.is_first_densification /\ op'.max_grad > 0 =>
       /\ store'.err # "AssertionError"
       /\ Ok(store') =>
            LET Old == Protected(store)
                New == Protected(store')
            IN /\ Cardinality(New) = Cardinality(Old)
               /\ \A j \in 1..Cardinality(Old) : \A g \in GroupSet :
                    /\ store'.params[g][NthOf(New, j)] = store.params[g][NthOf(Old, j)]
                    /\ store'.state[g].has = store.state[g].has
                    /\ store.state[g].has =>
                         /\ store'.state[g].exp_avg[NthOf(New, j)] = store.state[g].exp_avg[NthOf(Old, j)]
                         /\ store'.state[g].exp_avg_sq[NthOf(New, j)] = store.state[g].exp_avg_sq[NthOf(Old, j)]]_vars

\* a cycle with max_grad > 0 cloned a row and pruned rows of a trained store
\* that holds a frozen row after an optimizable one
C17_Witness ==
  /\ Ready /\ op.name = "densify_and_prune" /\ ~op.is_first_densification /\ op.max_grad > 0
  /\ Len(_xyz(op.after_clone)) > op.before
  /\ N < Len(_xyz(op.after_split))
  /\ \E i \in Protected(store) : store.state["xyz"].has /\ store.state["xyz"].exp_avg[i] # 0

====
